---- MODULE Spec2Model ----
(***************************************************************************)
(* The play queue of the music player daemon (src/src/Queue.cxx): the item *)
(* array, the order array, the id-to-position map, the version counter and *)
(* the mode flags, with one operator per function of Queue.cxx and one     *)
(* action per public call.                                                 *)
(*                                                                         *)
(* Arrays are functions on 0..length-1, indexed as in the C++ code.  Every *)
(* C++ function is an operator from a queue record to the queue record it  *)
(* leaves behind (or to the set of records it may leave behind when it     *)
(* draws random numbers); the actions apply them to the variables.         *)
(***************************************************************************)
EXTENDS Integers, FiniteSets, TLC

(* ---- bounds of the model ---- *)

\* the capacity handed to the constructor
max_length == 3

\* priorities handed to Append and SetPriority are 0..MaxPriority
MaxPriority == 1

\* IncrementVersion is called only while version < MaxVersion, or at the
\* last value before the wrap-around
MaxVersion == 2

\* how many songs are ever copied into the queue in one run
MaxSongs == 4

\* the capacity handed to the constructor of the second queue of the process
other_max_length == 1

(* ---- program constants ---- *)

\* Queue.hxx: the id-to-position table has max_length * QUEUE_HASH_MULT slots
QUEUE_HASH_MULT == 4

\* IncrementVersion's static max, ((uint32_t)1 << 31) - 1
max == 2147483647

\* (unsigned)-1, written as the 32-bit pattern it shares with -1: the only
\* unsigned value the model holds that lies above every index
G_MAXUINT == -1

VARIABLES
    length,          \* queue::length
    version,         \* queue::version
    items,           \* queue::items[0..length-1]: [song, id, version, priority]
    order,           \* queue::order[0..length-1]
    id_to_position,  \* queue::id_to_position[0..max_length*QUEUE_HASH_MULT-1]
    repeat,          \* queue::repeat
    single,          \* queue::single
    consume,         \* queue::consume
    random,          \* queue::random
    cur,             \* the static cursor of queue_generate_id
    songs,           \* how many detached song copies song_dup_detached has made
    aborted,         \* an assertion has failed: the process is gone
    other,           \* a second queue object of the same process
    \* a client that polls the version counter (not part of the queue)
    polling,         \* there is such a client in this run
    seen,            \* the counter value it last read, -1 when it holds none
    fresh,           \* it read right after a call that incremented the counter
    since,           \* the ids of the items created or modified since it read
    bumped           \* the last call incremented the counter

vars == <<length, version, items, order, id_to_position, repeat, single,
          consume, random, cur, songs, aborted, other, polling, seen, fresh,
          since, bumped>>

\* the number of slots of the id table
IdSlots == max_length * QUEUE_HASH_MULT

Priorities == 0..MaxPriority

\* the fields of the queue that the operators below read and write
This ==
    [max_length |-> max_length, length |-> length, version |-> version,
     items |-> items, order |-> order, id_to_position |-> id_to_position,
     random |-> random]

Store(q) ==
    /\ length' = q.length
    /\ version' = q.version
    /\ items' = q.items
    /\ order' = q.order
    /\ id_to_position' = q.id_to_position
    /\ random' = q.random

\* the first n elements of an array
Prefix(f, n) == [i \in 0..(n - 1) |-> f[i]]

\* an array with one more element at index n
Extend(f, n, x) == [i \in 0..n |-> IF i = n THEN x ELSE f[i]]

(* ---- Queue.hxx accessors ---- *)

IsFull(q) == q.length >= q.max_length

OrderToPosition(q, _order) == q.order[_order]

\* the identity in non-random mode, else a search of the order array
PositionToOrder(q, position) ==
    IF ~q.random THEN position
    ELSE CHOOSE i \in 0..(q.length - 1) : q.order[i] = position

PositionToId(q, position) == q.items[position].id

SwapOrders(q, order1, order2) ==
    [q EXCEPT !.order = [q.order EXCEPT ![order1] = q.order[order2],
                                        ![order2] = q.order[order1]]]

(* ---- Queue.cxx ---- *)

\* the constructor
ConstructedWith(_max_length) ==
    [max_length |-> _max_length, length |-> 0, version |-> 1,
     items |-> Prefix(<<>>, 0), order |-> Prefix(<<>>, 0),
     id_to_position |->
         [i \in 0..(_max_length * QUEUE_HASH_MULT - 1) |-> -1],
     random |-> FALSE]

\* the queue of the model as the constructor leaves it
Constructed == ConstructedWith(max_length)

\* mutant: the slot the cursor steps to is returned without the test
\* of the id table
queue_generate_id_NoTest(queue, c) ==
    LET c1 == c + 1
    IN  IF c1 >= queue.max_length * QUEUE_HASH_MULT THEN 0 ELSE c1

\* how many times the body of the loop of queue_generate_id runs when the
\* cursor is c on entry and n counts the run that starts; the count stops
\* one above the number of slots
RECURSIVE queue_generate_id_probes(_, _, _)
queue_generate_id_probes(queue, c, n) ==
    LET c1 == c + 1
        c2 == IF c1 >= queue.max_length * QUEUE_HASH_MULT THEN 0 ELSE c1
    IN  IF queue.id_to_position[c2] # -1
           /\ n <= queue.max_length * QUEUE_HASH_MULT
        THEN queue_generate_id_probes(queue, c2, n + 1)
        ELSE n

\* do { cur++; if (cur >= slots) cur = 0; } while (id_to_position[cur] != -1)
\* the result is the new cursor, which is the id
RECURSIVE queue_generate_id(_, _)
queue_generate_id(queue, c) ==
    LET c1 == c + 1
        c2 == IF c1 >= queue.max_length * QUEUE_HASH_MULT THEN 0 ELSE c1
    IN  IF queue.id_to_position[c2] # -1
        THEN queue_generate_id(queue, c2)
        ELSE c2

\* mutant: the last song wraps to the first even in consume mode
GetNextOrder_NoConsumeCheck(q, _order) ==
    IF single /\ repeat /\ ~consume THEN _order
    ELSE IF _order + 1 < q.length THEN _order + 1
    ELSE IF repeat THEN 0
    ELSE -1

\* mutant: the test for a following order is off by one
GetNextOrder_OffByOne(q, _order) ==
    IF single /\ repeat /\ ~consume THEN _order
    ELSE IF _order + 1 <= q.length THEN _order + 1
    ELSE IF repeat /\ (_order > 0 \/ ~consume) THEN 0
    ELSE -1

GetNextOrder(q, _order) ==
    IF single /\ repeat /\ ~consume THEN _order
    ELSE IF _order + 1 < q.length THEN _order + 1
    ELSE IF repeat /\ (_order > 0 \/ ~consume) THEN 0
    ELSE -1

\* mutant: the counter is reset only once it has passed max
IncrementVersion_LateReset(q) ==
    LET v == q.version + 1
    IN  IF v > max
        THEN [q EXCEPT !.items = [i \in 0..(q.length - 1) |->
                                     [q.items[i] EXCEPT !.version = 0]],
                       !.version = 1]
        ELSE [q EXCEPT !.version = v]

\* mutant: the wrap-around resets the counter and leaves the stamps
IncrementVersion_NoReset(q) ==
    LET v == q.version + 1
    IN  IF v >= max THEN [q EXCEPT !.version = 1] ELSE [q EXCEPT !.version = v]

IncrementVersion(q) ==
    LET v == q.version + 1
    IN  IF v >= max
        THEN [q EXCEPT !.items = [i \in 0..(q.length - 1) |->
                                     [q.items[i] EXCEPT !.version = 0]],
                       !.version = 1]
        ELSE [q EXCEPT !.version = v]

\* mutant: the new item is stored with the stamp 0
AppendItem_StampZero(q, song, priority, id) ==
    [q EXCEPT !.items = Extend(q.items, q.length,
                               [song |-> song, id |-> id,
                                version |-> 0, priority |-> priority]),
              !.order = Extend(q.order, q.length, q.length),
              !.id_to_position = [q.id_to_position EXCEPT ![id] = q.length],
              !.length = q.length + 1]

\* the statements of Append after the assertion
AppendItem(q, song, priority, id) ==
    [q EXCEPT !.items = Extend(q.items, q.length,
                               [song |-> song, id |-> id,
                                version |-> q.version, priority |-> priority]),
              !.order = Extend(q.order, q.length, q.length),
              !.id_to_position = [q.id_to_position EXCEPT ![id] = q.length],
              !.length = q.length + 1]

\* mutant: no assertion, the item is stored whatever the length
Append_NoAssert(q, c, song, priority) ==
    LET id == queue_generate_id(q, c)
    IN  [q |-> AppendItem(q, song, priority, id), cur |-> id, aborted |-> FALSE]

\* Append, with the cursor c on entry: the id is drawn first, then
\* assert(!IsFull()) ends the process or the item is stored
Append(q, c, song, priority) ==
    LET id == queue_generate_id(q, c)
    IN  IF IsFull(q)
        THEN [q |-> q, cur |-> id, aborted |-> TRUE]
        ELSE [q |-> AppendItem(q, song, priority, id), cur |-> id,
              aborted |-> FALSE]

\* mutant: the item is stamped after the counter has been incremented
ModifyAtOrder_StampsAfter(q, _order) ==
    LET position == q.order[_order]
        q1 == IncrementVersion(q)
    IN  [q1 EXCEPT !.items[position].version = q1.version]

ModifyAtOrder(q, _order) ==
    LET position == q.order[_order]
    IN  IncrementVersion([q EXCEPT !.items[position].version = q.version])

\* mutant: the items are stamped after the counter has been incremented
ModifyAll_StampsAfter(q) ==
    LET q1 == IncrementVersion(q)
    IN  [q1 EXCEPT !.items = [i \in 0..(q.length - 1) |->
                                 [q.items[i] EXCEPT !.version = q1.version]]]

ModifyAll(q) ==
    IncrementVersion([q EXCEPT !.items = [i \in 0..(q.length - 1) |->
                                 [q.items[i] EXCEPT !.version = q.version]]])

\* mutant: nothing is done when the two positions are the same
SwapPositions_SkipsSame(q, position1, position2) ==
    LET id1 == q.items[position1].id
        id2 == q.items[position2].id
        swapped == [q.items EXCEPT ![position1] = q.items[position2],
                                   ![position2] = q.items[position1]]
        stamped == [swapped EXCEPT ![position1].version = q.version,
                                   ![position2].version = q.version]
        bound1 == [q.id_to_position EXCEPT ![id1] = position2]
    IN  IF position1 = position2 THEN q
        ELSE [q EXCEPT !.items = stamped,
                       !.id_to_position = [bound1 EXCEPT ![id2] = position1]]

\* mutant: the two order entries are exchanged with the items
SwapPositions_SwapsOrders(q, position1, position2) ==
    LET id1 == q.items[position1].id
        id2 == q.items[position2].id
        swapped == [q.items EXCEPT ![position1] = q.items[position2],
                                   ![position2] = q.items[position1]]
        stamped == [swapped EXCEPT ![position1].version = q.version,
                                   ![position2].version = q.version]
        bound1 == [q.id_to_position EXCEPT ![id1] = position2]
    IN  [q EXCEPT !.items = stamped,
                  !.id_to_position = [bound1 EXCEPT ![id2] = position1],
                  !.order = [k \in DOMAIN q.order |->
                                IF q.order[k] = position1 THEN position2
                                ELSE IF q.order[k] = position2 THEN position1
                                ELSE q.order[k]]]

\* mutant: only the first of the two identifiers is bound again
SwapPositions_OneRebind(q, position1, position2) ==
    LET id1 == q.items[position1].id
        swapped == [q.items EXCEPT ![position1] = q.items[position2],
                                   ![position2] = q.items[position1]]
        stamped == [swapped EXCEPT ![position1].version = q.version,
                                   ![position2].version = q.version]
    IN  [q EXCEPT !.items = stamped,
                  !.id_to_position = [q.id_to_position EXCEPT ![id1] = position2]]

\* mutant: SwapPositions increments the version counter itself
SwapPositions_Increments(q, position1, position2) ==
    LET id1 == q.items[position1].id
        id2 == q.items[position2].id
        swapped == [q.items EXCEPT ![position1] = q.items[position2],
                                   ![position2] = q.items[position1]]
        stamped == [swapped EXCEPT ![position1].version = q.version,
                                   ![position2].version = q.version]
        bound1 == [q.id_to_position EXCEPT ![id1] = position2]
    IN  IncrementVersion(
            [q EXCEPT !.items = stamped,
                      !.id_to_position = [bound1 EXCEPT ![id2] = position1]])

SwapPositions(q, position1, position2) ==
    LET id1 == q.items[position1].id
        id2 == q.items[position2].id
        swapped == [q.items EXCEPT ![position1] = q.items[position2],
                                   ![position2] = q.items[position1]]
        stamped == [swapped EXCEPT ![position1].version = q.version,
                                   ![position2].version = q.version]
        bound1 == [q.id_to_position EXCEPT ![id1] = position2]
    IN  [q EXCEPT !.items = stamped,
                  !.id_to_position = [bound1 EXCEPT ![id2] = position1]]

\* mutant: the item is copied with the stamp it has
queue_move_song_to_NoStamp(queue, from, to) ==
    LET from_id == queue.items[from].id
    IN  [queue EXCEPT !.items[to] = queue.items[from],
                      !.id_to_position[from_id] = to]

\* mutant: the item is copied and the id table is left alone
queue_move_song_to_NoRebind(queue, from, to) ==
    [queue EXCEPT !.items[to] = [queue.items[from] EXCEPT
                                     !.version = queue.version]]

queue_move_song_to(queue, from, to) ==
    LET from_id == queue.items[from].id
    IN  [queue EXCEPT !.items[to] = [queue.items[from] EXCEPT
                                         !.version = queue.version],
                      !.id_to_position[from_id] = to]

\* for (i = from; i < to; i++) queue_move_song_to(this, i + 1, i)
RECURSIVE MoveSongsDown(_, _, _)
MoveSongsDown(q, i, to) ==
    IF i < to THEN MoveSongsDown(queue_move_song_to(q, i + 1, i), i + 1, to)
    ELSE q

\* for (i = from; i > to; i--) queue_move_song_to(this, i - 1, i)
RECURSIVE MoveSongsUp(_, _, _)
MoveSongsUp(q, i, to) ==
    IF i > to THEN MoveSongsUp(queue_move_song_to(q, i - 1, i), i - 1, to)
    ELSE q

\* mutant: the entry of the song at the target position is not shifted up
MovePostionOrder_Strict(x, from, to) ==
    IF x > from /\ x <= to THEN x - 1
    ELSE IF x < from /\ x > to THEN x + 1
    ELSE IF from = x THEN to
    ELSE x

\* the order rewrite of MovePostion, one entry
MovePostionOrder(x, from, to) ==
    IF x > from /\ x <= to THEN x - 1
    ELSE IF x < from /\ x >= to THEN x + 1
    ELSE IF from = x THEN to
    ELSE x

MovePostion(q, from, to) ==
    LET item == q.items[from]
        q1 == MoveSongsDown(q, from, to)
        q2 == MoveSongsUp(q1, from, to)
        q3 == [q2 EXCEPT !.id_to_position[item.id] = to,
                         !.items[to] = [item EXCEPT !.version = q.version]]
    IN  IF q.random
        THEN [q3 EXCEPT !.order = [i \in 0..(q.length - 1) |->
                                      MovePostionOrder(q.order[i], from, to)]]
        ELSE q3

\* unsigned a >= b, where a may be (unsigned)-1 and b is an index
UnsignedGE(a, b) == IF a = G_MAXUINT THEN TRUE ELSE a >= b

\* for (i = end; i < end + to - start; i++)
\*     queue_move_song_to(this, i, start + i - end)
RECURSIVE MoveRangeFirst(_, _, _, _, _)
MoveRangeFirst(q, i, start, end, to) ==
    IF i < end + to - start
    THEN MoveRangeFirst(queue_move_song_to(q, i, start + i - end),
                        i + 1, start, end, to)
    ELSE q

\* for (i = start - 1; i >= to && i != G_MAXUINT; i--)
\*     queue_move_song_to(this, i, i + end - start)
RECURSIVE MoveRangeSecond(_, _, _, _, _)
MoveRangeSecond(q, i, start, end, to) ==
    IF UnsignedGE(i, to) /\ i # G_MAXUINT
    THEN MoveRangeSecond(queue_move_song_to(q, i, i + end - start),
                         i - 1, start, end, to)
    ELSE q

\* mutant: the block is copied back to where it came from
MoveRangeBack_AtStart(q, tmp, i, start, end, to) ==
    [q EXCEPT !.items = [p \in DOMAIN q.items |->
                            IF start <= p /\ p < end
                            THEN [tmp[p - start] EXCEPT !.version = q.version]
                            ELSE q.items[p]]]

\* for (i = start; i < end; i++) { ... items[to + i - start] = tmp[i - start] ... }
RECURSIVE MoveRangeBack(_, _, _, _, _, _)
MoveRangeBack(q, tmp, i, start, end, to) ==
    IF i < end
    THEN MoveRangeBack(
             [q EXCEPT !.id_to_position[tmp[i - start].id] = to + i - start,
                       !.items[to + i - start] =
                           [tmp[i - start] EXCEPT !.version = q.version]],
             tmp, i + 1, start, end, to)
    ELSE q

\* mutant: the entries of the songs that make room behind the block are
\* left as they are
MoveRangeOrder_NoShiftUp(x, start, end, to) ==
    IF x >= end /\ x < to + end - start THEN x - (end - start)
    ELSE IF start <= x /\ x < end THEN x + (to - start)
    ELSE x

\* the order rewrite of MoveRange, one entry
MoveRangeOrder(x, start, end, to) ==
    IF x >= end /\ x < to + end - start THEN x - (end - start)
    ELSE IF x < start /\ x >= to THEN x + (end - start)
    ELSE IF start <= x /\ x < end THEN x + (to - start)
    ELSE x

MoveRange(q, start, end, to) ==
    LET tmp == [k \in 0..(end - start - 1) |-> q.items[start + k]]
        q1 == MoveRangeFirst(q, end, start, end, to)
        q2 == MoveRangeSecond(q1, start - 1, start, end, to)
        q3 == MoveRangeBack(q2, tmp, start, start, end, to)
    IN  IF q.random
        THEN [q3 EXCEPT !.order = [i \in 0..(q.length - 1) |->
                                      MoveRangeOrder(q.order[i], start, end, to)]]
        ELSE q3

queue_move_order(queue, from_order, to_order) ==
    LET from_position == OrderToPosition(queue, from_order)
    IN  [queue EXCEPT !.order = [i \in 0..(queue.length - 1) |->
            IF i = to_order THEN from_position
            ELSE IF from_order < to_order /\ from_order <= i /\ i < to_order
                 THEN queue.order[i + 1]
            ELSE IF from_order >= to_order /\ to_order < i /\ i <= from_order
                 THEN queue.order[i - 1]
            ELSE queue.order[i]]]

\* mutant: the entry is removed and the rest is not readjusted
DeleteOrder_NoReadjust(ord, newlen, _order, position) ==
    [i \in 0..(newlen - 1) |-> IF i >= _order THEN ord[i + 1] ELSE ord[i]]

\* the order array of DeletePosition: the entry at _order is removed and
\* every entry above position is decremented
DeleteOrder(ord, newlen, _order, position) ==
    [i \in 0..(newlen - 1) |->
        LET x == IF i >= _order THEN ord[i + 1] ELSE ord[i]
        IN  IF x > position THEN x - 1 ELSE x]

\* mutant: the identifier of the deleted song is not released
DeletePosition_KeepsId(q, position) ==
    LET _order == PositionToOrder(q, position)
        newlen == q.length - 1
        q2 == MoveSongsDown(q, position, newlen)
    IN  [q2 EXCEPT !.length = newlen,
                   !.items = Prefix(q2.items, newlen),
                   !.order = DeleteOrder(q.order, newlen, _order, position)]

DeletePosition(q, position) ==
    LET id == PositionToId(q, position)
        _order == PositionToOrder(q, position)
        newlen == q.length - 1
        q1 == [q EXCEPT !.id_to_position[id] = -1]
        q2 == MoveSongsDown(q1, position, newlen)
    IN  [q2 EXCEPT !.length = newlen,
                   !.items = Prefix(q2.items, newlen),
                   !.order = DeleteOrder(q.order, newlen, _order, position)]

\* mutant: Clear starts the version counter again
Clear_ResetsVersion(q) ==
    [q EXCEPT !.id_to_position = [i \in 0..(IdSlots - 1) |->
                  IF \E p \in 0..(q.length - 1) : q.items[p].id = i
                  THEN -1 ELSE q.id_to_position[i]],
              !.items = Prefix(q.items, 0),
              !.order = Prefix(q.order, 0),
              !.length = 0,
              !.version = 1]

\* mutant: the identifiers are not released
Clear_KeepsIds(q) ==
    [q EXCEPT !.items = Prefix(q.items, 0),
              !.order = Prefix(q.order, 0),
              !.length = 0]

Clear(q) ==
    [q EXCEPT !.id_to_position = [i \in 0..(IdSlots - 1) |->
                  IF \E p \in 0..(q.length - 1) : q.items[p].id = i
                  THEN -1 ELSE q.id_to_position[i]],
              !.items = Prefix(q.items, 0),
              !.order = Prefix(q.order, 0),
              !.length = 0]

queue_get_order_priority(queue, _order) ==
    queue.items[queue.order[_order]].priority

\* mutant: the comparator puts the lower priority first
queue_item_compare_order_priority_Ascending(queue, av, bv) ==
    LET a == queue.items[av].priority
        b == queue.items[bv].priority
    IN  IF a = b THEN 0 ELSE IF a > b THEN 1 ELSE -1

\* the comparator g_qsort_with_data sorts the order slice with
queue_item_compare_order_priority(queue, av, bv) ==
    LET a == queue.items[av].priority
        b == queue.items[bv].priority
    IN  IF a = b THEN 0 ELSE IF a > b THEN -1 ELSE 1

\* the bijections of start..end-1
SlicePermutations(start, end) ==
    {f \in [start..(end - 1) -> start..(end - 1)] :
        \A i, j \in start..(end - 1) : f[i] = f[j] => i = j}

\* the order array with the slice [start, end) rearranged by f
Rearranged(q, start, end, f) ==
    [q EXCEPT !.order = [i \in 0..(q.length - 1) |->
        IF start <= i /\ i < end THEN q.order[f[i]] ELSE q.order[i]]]

\* g_qsort_with_data: every arrangement of the slice the comparator accepts
\* (the sort need not be stable)
queue_sort_order_by_priority(queue, start, end) ==
    {r \in {Rearranged(queue, start, end, f) : f \in SlicePermutations(start, end)} :
        \A i, j \in start..(end - 1) :
            i < j => queue_item_compare_order_priority(queue, r.order[i], r.order[j]) <= 0}

\* std::shuffle: every arrangement of the slice
ShuffleOrderRange(q, start, end) ==
    {Rearranged(q, start, end, f) : f \in SlicePermutations(start, end)}

\* the loop of ShuffleOrderRangeWithPriority from index i on, for every
\* queue of the set qs (all of them agree on the priorities along the order)
RECURSIVE ShuffleGroups(_, _, _, _, _)
ShuffleGroups(qs, i, end, group_start, group_priority) ==
    IF i < end
    THEN LET priority == queue_get_order_priority(CHOOSE q \in qs : TRUE, i)
         IN  IF priority # group_priority
             THEN ShuffleGroups(
                      UNION {ShuffleOrderRange(q, group_start, i) : q \in qs},
                      i + 1, end, i, priority)
             ELSE ShuffleGroups(qs, i + 1, end, group_start, group_priority)
    ELSE UNION {ShuffleOrderRange(q, group_start, end) : q \in qs}

\* assert(priority <= group_priority) in the loop of
\* ShuffleOrderRangeWithPriority, from index i on, over the sorted slice (the
\* group shuffles write only entries below i): TRUE when it never fails
RECURSIVE ShuffleGroupsAssertion(_, _, _, _)
ShuffleGroupsAssertion(q, i, end, group_priority) ==
    IF i < end
    THEN LET priority == queue_get_order_priority(q, i)
         IN  /\ priority <= group_priority
             /\ ShuffleGroupsAssertion(q, i + 1, end, priority)
    ELSE TRUE

ShuffleOrderRangeWithPriority(q, start, end) ==
    IF start = end THEN {q}
    ELSE UNION {ShuffleGroups({s}, start + 1, end, start,
                              queue_get_order_priority(s, start)) :
                    s \in queue_sort_order_by_priority(q, start, end)}

ShuffleOrder(q) == ShuffleOrderRangeWithPriority(q, 0, q.length)

\* SwapOrders(start, r) for every r the distribution over [start, end - 1] draws
ShuffleOrderFirst(q, start, end) ==
    {SwapOrders(q, start, r) : r \in start..(end - 1)}

ShuffleOrderLast(q, start, end) ==
    {SwapOrders(q, end - 1, r) : r \in start..(end - 1)}

\* the loop of ShuffleRange from index i on, for every draw of ri
RECURSIVE ShuffleRangeFrom(_, _, _, _)
ShuffleRangeFrom(qs, i, start, end) ==
    IF i < end
    THEN ShuffleRangeFrom(
             {SwapPositions(q, i, ri) : q \in qs, ri \in start..(end - 1)},
             i + 1, start, end)
    ELSE qs

ShuffleRange(q, start, end) == ShuffleRangeFrom({q}, start, start, end)

\* mutant: the search is for this priority or a higher one
queue_find_priority_order_OrHigher(queue, start_order, priority, exclude_order) ==
    LET found == {o \in start_order..(queue.length - 1) :
                     /\ queue.items[OrderToPosition(queue, o)].priority >= priority
                     /\ o # exclude_order}
    IN  IF found = {} THEN queue.length
        ELSE CHOOSE o \in found : \A o2 \in found : o <= o2

\* mutant: the search starts one order early, at the playing song
queue_find_priority_order_FromBefore(queue, start_order, priority, exclude_order) ==
    LET first == IF start_order > 0 THEN start_order - 1 ELSE 0
        found == {o \in first..(queue.length - 1) :
                     /\ queue.items[OrderToPosition(queue, o)].priority <= priority
                     /\ o # exclude_order}
    IN  IF found = {} THEN queue.length
        ELSE CHOOSE o \in found : \A o2 \in found : o <= o2

\* mutant: the order of the item itself is not excluded from the search
queue_find_priority_order_NoExclude(queue, start_order, priority, exclude_order) ==
    LET found == {o \in start_order..(queue.length - 1) :
                     queue.items[OrderToPosition(queue, o)].priority <= priority}
    IN  IF found = {} THEN queue.length
        ELSE CHOOSE o \in found : \A o2 \in found : o <= o2

\* the first order >= start_order, other than exclude_order, whose item has
\* this priority or a lower one; length when there is none
queue_find_priority_order(queue, start_order, priority, exclude_order) ==
    LET found == {o \in start_order..(queue.length - 1) :
                     /\ queue.items[OrderToPosition(queue, o)].priority <= priority
                     /\ o # exclude_order}
    IN  IF found = {} THEN queue.length
        ELSE CHOOSE o \in found : \A o2 \in found : o <= o2

\* mutant: the count starts behind start_order
queue_count_same_priority_FromNext(queue, start_order, priority) ==
    LET differ == {o \in (start_order + 1)..(queue.length - 1) :
                      queue.items[OrderToPosition(queue, o)].priority # priority}
    IN  IF differ = {} THEN queue.length - start_order - 1
        ELSE (CHOOSE o \in differ : \A o2 \in differ : o <= o2)
                 - start_order - 1

\* mutant: every order from start_order on is counted
\* (the operator below: how many consecutive orders from start_order on have
\* exactly this priority)
queue_count_same_priority_ToEnd(queue, start_order, priority) ==
    queue.length - start_order

queue_count_same_priority(queue, start_order, priority) ==
    LET differ == {o \in start_order..(queue.length - 1) :
                      queue.items[OrderToPosition(queue, o)].priority # priority}
    IN  IF differ = {} THEN queue.length - start_order
        ELSE (CHOOSE o \in differ : \A o2 \in differ : o <= o2) - start_order

\* mutant: a song that has been played is enqueued again whatever its
\* priorities
SetPriority_AlwaysEnqueues(q, position, priority, after_order) ==
    LET old_priority == q.items[position].priority
        q1 == [q EXCEPT !.items[position].version = q.version,
                        !.items[position].priority = priority]
        _order == PositionToOrder(q1, position)
        before_order ==
            queue_find_priority_order(q1, after_order + 1, priority, _order)
        new_order ==
            IF before_order > _order THEN before_order - 1 ELSE before_order
        q2 == queue_move_order(q1, _order, new_order)
        priority_count == queue_count_same_priority(q2, new_order, priority)
    IN  IF old_priority = priority
        THEN {[q |-> q, changed |-> FALSE]}
        ELSE IF ~q.random
        THEN {[q |-> q1, changed |-> TRUE]}
        ELSE IF after_order >= 0 /\ _order = after_order
        THEN {[q |-> q1, changed |-> TRUE]}
        ELSE {[q |-> q3, changed |-> TRUE] :
                q3 \in ShuffleOrderFirst(q2, new_order, new_order + priority_count)}

\* mutant: the playing song is reordered like any other
SetPriority_MovesPlaying(q, position, priority, after_order) ==
    LET old_priority == q.items[position].priority
        q1 == [q EXCEPT !.items[position].version = q.version,
                        !.items[position].priority = priority]
        _order == PositionToOrder(q1, position)
        after_item == q1.items[OrderToPosition(q1, after_order)]
        before_order ==
            queue_find_priority_order(q1, after_order + 1, priority, _order)
        new_order ==
            IF before_order > _order THEN before_order - 1 ELSE before_order
        q2 == queue_move_order(q1, _order, new_order)
        priority_count == queue_count_same_priority(q2, new_order, priority)
    IN  IF old_priority = priority
        THEN {[q |-> q, changed |-> FALSE]}
        ELSE IF ~q.random
        THEN {[q |-> q1, changed |-> TRUE]}
        ELSE IF /\ after_order >= 0
                /\ _order < after_order
                /\ \/ old_priority > after_item.priority
                   \/ priority <= after_item.priority
        THEN {[q |-> q1, changed |-> TRUE]}
        ELSE {[q |-> q3, changed |-> TRUE] :
                q3 \in ShuffleOrderFirst(q2, new_order, new_order + priority_count)}

\* mutant: no early return when the priority is the one the item has
SetPriority_NoEarlyReturn(q, position, priority, after_order) ==
    LET old_priority == q.items[position].priority
        q1 == [q EXCEPT !.items[position].version = q.version,
                        !.items[position].priority = priority]
        _order == PositionToOrder(q1, position)
        after_item == q1.items[OrderToPosition(q1, after_order)]
        before_order ==
            queue_find_priority_order(q1, after_order + 1, priority, _order)
        new_order ==
            IF before_order > _order THEN before_order - 1 ELSE before_order
        q2 == queue_move_order(q1, _order, new_order)
        priority_count == queue_count_same_priority(q2, new_order, priority)
    IN  IF ~q.random
        THEN {[q |-> q1, changed |-> TRUE]}
        ELSE IF after_order >= 0 /\ _order = after_order
        THEN {[q |-> q1, changed |-> TRUE]}
        ELSE IF /\ after_order >= 0
                /\ _order < after_order
                /\ \/ old_priority > after_item.priority
                   \/ priority <= after_item.priority
        THEN {[q |-> q1, changed |-> TRUE]}
        ELSE {[q |-> q3, changed |-> TRUE] :
                q3 \in ShuffleOrderFirst(q2, new_order, new_order + priority_count)}

\* every [q, changed] that SetPriority may leave and return
SetPriority(q, position, priority, after_order) ==
    LET old_priority == q.items[position].priority
        q1 == [q EXCEPT !.items[position].version = q.version,
                        !.items[position].priority = priority]
        _order == PositionToOrder(q1, position)
        after_item == q1.items[OrderToPosition(q1, after_order)]
        before_order ==
            queue_find_priority_order(q1, after_order + 1, priority, _order)
        new_order ==
            IF before_order > _order THEN before_order - 1 ELSE before_order
        q2 == queue_move_order(q1, _order, new_order)
        priority_count == queue_count_same_priority(q2, new_order, priority)
    IN  IF old_priority = priority
        THEN {[q |-> q, changed |-> FALSE]}
        ELSE IF ~q.random
        THEN {[q |-> q1, changed |-> TRUE]}
        ELSE IF after_order >= 0 /\ _order = after_order
        THEN {[q |-> q1, changed |-> TRUE]}
        ELSE IF /\ after_order >= 0
                /\ _order < after_order
                /\ \/ old_priority > after_item.priority
                   \/ priority <= after_item.priority
        THEN {[q |-> q1, changed |-> TRUE]}
        ELSE {[q |-> q3, changed |-> TRUE] :
                q3 \in ShuffleOrderFirst(q2, new_order, new_order + priority_count)}

\* the loop of SetPriorityRange from position i on, for every [q, changed]
\* reached so far
RECURSIVE SetPriorityRangeFrom(_, _, _, _, _)
SetPriorityRangeFrom(rs, i, end_position, priority, after_position) ==
    IF i < end_position
    THEN SetPriorityRangeFrom(
             UNION {{[q |-> r2.q, changed |-> r.changed \/ r2.changed] :
                        r2 \in SetPriority(r.q, i, priority,
                                  IF after_position >= 0
                                  THEN PositionToOrder(r.q, after_position)
                                  ELSE -1)} : r \in rs},
             i + 1, end_position, priority, after_position)
    ELSE rs

SetPriorityRange(q, start_position, end_position, priority, after_order) ==
    LET after_position ==
            IF after_order >= 0 THEN OrderToPosition(q, after_order) ELSE -1
    IN  SetPriorityRangeFrom({[q |-> q, changed |-> FALSE]}, start_position,
                             end_position, priority, after_position)

(* ---- the polling client ---- *)

NoClient ==
    /\ polling = FALSE
    /\ seen = -1
    /\ fresh = FALSE
    /\ since = {}
    /\ bumped = FALSE

\* the ids of the items that the step has created, moved or written
Touched ==
    {items'[p].id : p \in {p \in 0..(length' - 1) :
        LET was == id_to_position[items'[p].id]
        IN  was = -1 \/ was # p \/ items[was] # items'[p]}}

\* What the client knows after a call of the queue: a wrap-around of the
\* counter makes the value it holds useless.
Client ==
    IF ~polling
    THEN UNCHANGED <<polling, seen, fresh, since, bumped>>
    ELSE /\ UNCHANGED polling
         /\ bumped' = (version' # version)
         /\ IF version' < version \/ seen = -1
            THEN seen' = -1 /\ fresh' = FALSE /\ since' = {}
            ELSE /\ UNCHANGED <<seen, fresh>>
                 /\ since' = (since \cup Touched) \cap
                                 {items'[p].id : p \in 0..(length' - 1)}

(* ---- the calls ---- *)

Init ==
    /\ length = Constructed.length
    /\ version = Constructed.version
    /\ items = Constructed.items
    /\ order = Constructed.order
    /\ id_to_position = Constructed.id_to_position
    /\ random = Constructed.random
    /\ repeat = FALSE
    /\ single = FALSE
    /\ consume = FALSE
    /\ cur = G_MAXUINT
    /\ songs = 0
    /\ aborted = FALSE
    /\ other = ConstructedWith(other_max_length)
    /\ NoClient

\* a call of Append copies the song only when the assertion has passed
CallAppend ==
    \E priority \in Priorities :
        /\ ~aborted
        /\ IsFull(This) \/ songs < MaxSongs
        /\ LET r == Append(This, cur, songs, priority)
           IN  /\ Store(r.q)
               /\ cur' = r.cur
               /\ aborted' = r.aborted
               /\ songs' = IF r.aborted THEN songs ELSE songs + 1
        /\ UNCHANGED <<repeat, single, consume, other>>
        /\ Client

\* the calls that leave the mode flags, the cursor and the song count alone
Leave ==
    UNCHANGED <<repeat, single, consume, cur, songs, aborted, other>> /\ Client

\* IncrementVersion is called while the version is below the bound, and at
\* the last value before the wrap-around
MayIncrement == version < MaxVersion \/ version = max - 1

CallIncrementVersion ==
    /\ ~aborted
    /\ MayIncrement
    /\ Store(IncrementVersion(This))
    /\ Leave

CallModifyAtOrder ==
    \E _order \in 0..(length - 1) :
        /\ ~aborted
        /\ MayIncrement
        /\ Store(ModifyAtOrder(This, _order))
        /\ Leave

CallModifyAll ==
    /\ ~aborted
    /\ MayIncrement
    /\ Store(ModifyAll(This))
    /\ Leave

CallSwapPositions ==
    \E position1, position2 \in 0..(length - 1) :
        /\ ~aborted
        /\ Store(SwapPositions(This, position1, position2))
        /\ Leave

CallMovePostion ==
    \E from, to \in 0..(length - 1) :
        /\ ~aborted
        /\ Store(MovePostion(This, from, to))
        /\ Leave

CallMoveRange ==
    \E start \in 0..length :
        \E end \in start..length :
            \E to \in 0..(length - (end - start)) :
                /\ ~aborted
                /\ Store(MoveRange(This, start, end, to))
                /\ Leave

CallDeletePosition ==
    \E position \in 0..(length - 1) :
        /\ ~aborted
        /\ Store(DeletePosition(This, position))
        /\ Leave

CallClear ==
    /\ ~aborted
    /\ Store(Clear(This))
    /\ Leave

CallShuffleRange ==
    \E start \in 0..length :
        \E end \in start..length :
            \E q \in ShuffleRange(This, start, end) :
                /\ ~aborted
                /\ Store(q)
                /\ Leave

\* The order shuffles are called in random mode only: ShuffleOrderRange and
\* ShuffleOrderRangeWithPriority assert it, ShuffleOrderFirst and
\* ShuffleOrderLast are the single swaps their callers make in random mode.
CallShuffleOrderRange ==
    \E start \in 0..length :
        \E end \in start..length :
            \E q \in ShuffleOrderRange(This, start, end) :
                /\ ~aborted
                /\ random
                /\ Store(q)
                /\ Leave

CallShuffleOrderRangeWithPriority ==
    \E start \in 0..length :
        \E end \in start..length :
            \E q \in ShuffleOrderRangeWithPriority(This, start, end) :
                /\ ~aborted
                /\ random
                /\ Store(q)
                /\ Leave

CallShuffleOrder ==
    \E q \in ShuffleOrder(This) :
        /\ ~aborted
        /\ random
        /\ Store(q)
        /\ Leave

CallShuffleOrderFirst ==
    \E start \in 0..(length - 1) :
        \E end \in (start + 1)..length :
            \E q \in ShuffleOrderFirst(This, start, end) :
                /\ ~aborted
                /\ random
                /\ Store(q)
                /\ Leave

CallShuffleOrderLast ==
    \E start \in 0..(length - 1) :
        \E end \in (start + 1)..length :
            \E q \in ShuffleOrderLast(This, start, end) :
                /\ ~aborted
                /\ random
                /\ Store(q)
                /\ Leave

SetPriorityWith(after_order) ==
    \E position \in 0..(length - 1) :
        \E priority \in Priorities :
            \E r \in SetPriority(This, position, priority, after_order) :
                /\ ~aborted
                /\ Store(r.q)
                /\ Leave

CallSetPriority ==
    \E after_order \in -1..(length - 1) : SetPriorityWith(after_order)

SetPriorityRangeWith(after_order) ==
    \E start_position \in 0..length :
        \E end_position \in start_position..length :
            \E priority \in Priorities :
                \E r \in SetPriorityRange(This, start_position, end_position,
                                          priority, after_order) :
                    /\ ~aborted
                    /\ Store(r.q)
                    /\ Leave

CallSetPriorityRange ==
    \E after_order \in -1..(length - 1) : SetPriorityRangeWith(after_order)

\* the caller of the queue that switches random mode: the order is shuffled
\* by priority when it is switched on and restored to the identity when it
\* is switched off
SetRandom ==
    \E status \in BOOLEAN :
        \E q \in IF status THEN ShuffleOrder([This EXCEPT !.random = TRUE])
                 ELSE {[This EXCEPT !.random = FALSE,
                                    !.order = [i \in 0..(length - 1) |-> i]]} :
            /\ ~aborted
            /\ Store(q)
            /\ Leave

SetRepeat ==
    /\ ~aborted
    /\ repeat' = ~repeat
    /\ UNCHANGED <<length, version, items, order, id_to_position, single,
                   consume, random, cur, songs, aborted,
                   other>>
    /\ Client

SetSingle ==
    /\ ~aborted
    /\ single' = ~single
    /\ UNCHANGED <<length, version, items, order, id_to_position, repeat,
                   consume, random, cur, songs, aborted,
                   other>>
    /\ Client

SetConsume ==
    /\ ~aborted
    /\ consume' = ~consume
    /\ UNCHANGED <<length, version, items, order, id_to_position, repeat,
                   single, random, cur, songs, aborted,
                   other>>
    /\ Client

Next ==
    \/ CallAppend
    \/ CallDeletePosition
    \/ CallClear
    \/ CallSwapPositions
    \/ CallMovePostion
    \/ CallMoveRange
    \/ CallShuffleRange
    \/ CallSetPriority
    \/ CallSetPriorityRange
    \/ CallShuffleOrder
    \/ CallShuffleOrderRange
    \/ CallShuffleOrderRangeWithPriority
    \/ CallShuffleOrderFirst
    \/ CallShuffleOrderLast
    \/ CallModifyAtOrder
    \/ CallModifyAll
    \/ CallIncrementVersion
    \/ SetRandom

Spec == Init /\ [][Next]_vars

(* ---- the version counter near its wrap-around ---- *)

\* The queue after IncrementVersion has been called on it, empty, until the
\* counter holds the last value before the wrap-around.
InitWrap ==
    /\ length = Constructed.length
    /\ version = max - 1
    /\ items = Constructed.items
    /\ order = Constructed.order
    /\ id_to_position = Constructed.id_to_position
    /\ random = Constructed.random
    /\ repeat = FALSE
    /\ single = FALSE
    /\ consume = FALSE
    /\ cur = G_MAXUINT
    /\ songs = 0
    /\ aborted = FALSE
    /\ other = ConstructedWith(other_max_length)
    /\ NoClient

\* the calls that stamp items or move the counter, in non-random mode
NextWrap ==
    \/ CallAppend
    \/ CallDeletePosition
    \/ CallClear
    \/ CallSwapPositions
    \/ CallMovePostion
    \/ CallMoveRange
    \/ CallShuffleRange
    \/ CallSetPriority
    \/ CallSetPriorityRange
    \/ CallModifyAtOrder
    \/ CallModifyAll
    \/ CallIncrementVersion

InitEither == Init \/ InitWrap

SpecWrap == InitEither /\ [][NextWrap]_vars

(* ---- the queue with a polling client ---- *)

InitPoll ==
    /\ length = Constructed.length
    /\ version = Constructed.version
    /\ items = Constructed.items
    /\ order = Constructed.order
    /\ id_to_position = Constructed.id_to_position
    /\ random = Constructed.random
    /\ repeat = FALSE
    /\ single = FALSE
    /\ consume = FALSE
    /\ cur = G_MAXUINT
    /\ songs = 0
    /\ aborted = FALSE
    /\ other = ConstructedWith(other_max_length)
    /\ polling = TRUE
    /\ seen = -1
    /\ fresh = FALSE
    /\ since = {}
    /\ bumped = FALSE

\* the client reads the version counter between two calls
Observe ==
    /\ polling
    /\ ~aborted
    /\ seen' = version
    /\ fresh' = bumped
    /\ since' = {}
    /\ UNCHANGED <<length, version, items, order, id_to_position, repeat,
                   single, consume, random, cur, songs, aborted, other,
                   polling, bumped>>

NextPoll ==
    \/ CallAppend
    \/ CallDeletePosition
    \/ CallClear
    \/ CallSwapPositions
    \/ CallMovePostion
    \/ CallMoveRange
    \/ CallShuffleRange
    \/ CallSetPriority
    \/ CallSetPriorityRange
    \/ CallModifyAtOrder
    \/ CallModifyAll
    \/ CallIncrementVersion
    \/ Observe

SpecPoll == InitPoll /\ [][NextPoll]_vars

(* ---- the mode flags and the choice of the next song ---- *)

NextSelector ==
    \/ CallAppend
    \/ CallDeletePosition
    \/ CallClear
    \/ SetRepeat
    \/ SetSingle
    \/ SetConsume

SpecSelector == Init /\ [][NextSelector]_vars

\* the calls that change the order array or the priorities; the version
\* counter stays at its initial value
NextOrder ==
    \/ CallAppend
    \/ CallDeletePosition
    \/ CallClear
    \/ CallSwapPositions
    \/ CallMovePostion
    \/ CallMoveRange
    \/ CallShuffleRange
    \/ CallSetPriority
    \/ CallSetPriorityRange
    \/ CallShuffleOrder
    \/ CallShuffleOrderRange
    \/ CallShuffleOrderRangeWithPriority
    \/ CallShuffleOrderFirst
    \/ CallShuffleOrderLast
    \/ SetRandom

SpecOrder == Init /\ [][NextOrder]_vars

(* ---- the allocation cursor anywhere on the id table ---- *)

\* A queue that holds one song after any number of Appends and deletions:
\* the song has any identifier, and the static cursor of queue_generate_id,
\* which every Append advances, stands anywhere on the table.
InitCursor ==
    \E id \in 0..(IdSlots - 1) :
        \E c \in 0..(IdSlots - 1) :
            /\ length = 1
            /\ version = Constructed.version
            /\ items = Extend(Constructed.items, 0,
                              [song |-> 0, id |-> id,
                               version |-> Constructed.version, priority |-> 0])
            /\ order = Extend(Constructed.order, 0, 0)
            /\ id_to_position = [Constructed.id_to_position EXCEPT ![id] = 0]
            /\ random = Constructed.random
            /\ repeat = FALSE
            /\ single = FALSE
            /\ consume = FALSE
            /\ cur = c
            /\ songs = 1
            /\ aborted = FALSE
            /\ other = ConstructedWith(other_max_length)
            /\ NoClient

NextCursor ==
    \/ CallAppend
    \/ CallDeletePosition
    \/ CallClear

SpecCursor == InitCursor /\ [][NextCursor]_vars

(* ---- Clear under every setting of the mode flags ---- *)

NextFrame ==
    \/ CallAppend
    \/ CallClear
    \/ CallModifyAll
    \/ SetRandom
    \/ SetRepeat
    \/ SetSingle
    \/ SetConsume

SpecFrame == Init /\ [][NextFrame]_vars

(* ---- two queue objects that share the allocation cursor ---- *)

\* Append on the second queue: queue_generate_id probes the second queue's
\* own table and leaves the static cursor, which is one per process, where
\* it found the id.  The songs and priorities of the second queue are not
\* told apart.
CallOtherAppend ==
    /\ ~aborted
    /\ LET r == Append(other, cur, 0, 0)
       IN  /\ other' = r.q
           /\ cur' = r.cur
           /\ aborted' = r.aborted
    /\ UNCHANGED <<length, version, items, order, id_to_position, random,
                   repeat, single, consume, songs>>
    /\ Client

CallOtherDeletePosition ==
    \E position \in 0..(other.length - 1) :
        /\ ~aborted
        /\ other' = DeletePosition(other, position)
        /\ UNCHANGED <<length, version, items, order, id_to_position, random,
                       repeat, single, consume, cur, songs, aborted>>
        /\ Client

NextShared ==
    \/ CallAppend
    \/ CallDeletePosition
    \/ CallOtherAppend
    \/ CallOtherDeletePosition

SpecShared == Init /\ [][NextShared]_vars

(* ---- the claims ---- *)

\* C1: the identifiers of the live items are pairwise distinct, and the id
\* table maps the identifier of the item at every position p < length back
\* to p.
C1_IdRoundTrip ==
    /\ \A p1, p2 \in 0..(length - 1) :
           items[p1].id = items[p2].id => p1 = p2
    /\ \A p \in 0..(length - 1) : id_to_position[items[p].id] = p

\* a full queue whose identifiers are out of step with the positions, after
\* a deletion and moves
C1_Witness ==
    /\ length = max_length
    /\ songs > length
    /\ items[0].id > items[1].id
    /\ items[1].id > items[2].id

\* C2: the order array, on 0..length-1, holds every position exactly once,
\* in random and in non-random mode.
C2_OrderIsPermutation ==
    /\ DOMAIN order = 0..(length - 1)
    /\ \A position \in 0..(length - 1) :
           Cardinality({k \in 0..(length - 1) : order[k] = position}) = 1

\* a shuffled order that has been through a deletion
C2_Witness ==
    /\ random
    /\ songs > length
    /\ length >= 2
    /\ order[0] = length - 1

\* the priorities read along the order array never increase
PrioritySorted ==
    \A k, j \in 0..(length - 1) :
        k < j => items[order[k]].priority >= items[order[j]].priority

\* C3 as stated: while random mode is set the priorities read along the
\* order array are non-increasing after every call.
C3_SortedInRandom == random => PrioritySorted

\* the calls that keep the priorities along the order non-increasing
C3_KeepingCall ==
    \/ CallDeletePosition
    \/ CallClear
    \/ CallMovePostion
    \/ CallMoveRange
    \/ CallShuffleOrderRangeWithPriority
    \/ SetPriorityWith(-1)
    \/ SetPriorityRangeWith(-1)

\* C3 amended: in random mode ShuffleOrder leaves the priorities along the
\* order array non-increasing, and DeletePosition, Clear, MovePosition,
\* MoveRange, ShuffleOrderRangeWithPriority, SetPriority and SetPriorityRange
\* with after_order = -1 keep them so.
C3_SortedKept ==
    [][\/ PrioritySorted'
       \/ /\ ~(random /\ CallShuffleOrder)
          /\ ~(random /\ PrioritySorted /\ C3_KeepingCall)]_vars

\* a sorted random order that differs from the positions, with both
\* priorities present
C3_Witness ==
    /\ random
    /\ length = 3
    /\ PrioritySorted
    /\ items[0].priority < items[2].priority
    /\ order[0] = 2

\* the calls that change an item's song, priority or position
C4_StampingCall ==
    \/ CallAppend
    \/ CallSwapPositions
    \/ CallMovePostion
    \/ CallMoveRange
    \/ CallShuffleRange
    \/ CallSetPriority

C6_StampsAtMostVersion ==
    \A p \in 0..(length - 1) : items[p].version <= version

\* the state right after a wrap-around: the counter is back at 1 and the
\* stamps are reset
C6_Witness ==
    /\ version = 1
    /\ length >= 2
    /\ \A p \in 0..(length - 1) : items[p].version = 0

\* C7: GetNextOrder returns the first matching row of the table: the same
\* order when single and repeat and not consume; else the following order
\* when there is one; else 0 when repeat and (order > 0 or not consume);
\* else -1.  The result is -1 or an order below length.
C7_Row1 == single /\ repeat /\ ~consume

C7_Row2(o) == o + 1 < length

C7_Row3(o) == repeat /\ (o > 0 \/ ~consume)

C7_NextOrderTable ==
    \A o \in 0..(length - 1) :
        LET n == GetNextOrder(This, o)
        IN  /\ C7_Row1 => n = o
            /\ ~C7_Row1 /\ C7_Row2(o) => n = o + 1
            /\ ~C7_Row1 /\ ~C7_Row2(o) /\ C7_Row3(o) => n = 0
            /\ ~C7_Row1 /\ ~C7_Row2(o) /\ ~C7_Row3(o) => n = -1
            /\ n = -1 \/ n \in 0..(length - 1)

\* three songs with single and repeat set: the song at order 1 is replayed
C7_Witness ==
    /\ length = 3
    /\ single /\ repeat /\ ~consume
    /\ GetNextOrder(This, 1) = 1

\* C8 as stated: with three appended songs, consume and repeat set, in
\* non-random mode, the order after order 0 is the end of the queue.
C8_NextOfFirstIsEnd ==
    (~random /\ length = 3 /\ consume /\ repeat) => GetNextOrder(This, 0) = -1

\* C8 amended: with three appended songs, consume and repeat set, the order
\* after order 0 is order 1; the end of the queue follows order 0 only when
\* the queue holds a single song.
C8_NextOfFirst ==
    (~random /\ consume /\ repeat) =>
        /\ length = 3 => GetNextOrder(This, 0) = 1
        /\ length = 1 => GetNextOrder(This, 0) = -1

C8_Witness ==
    /\ ~random /\ consume /\ repeat
    /\ length = 3
    /\ songs = 3

\* C9 as stated: Append on a full queue fails without ending the process
\* and leaves length, items, order, id table, version counter and the
\* allocation cursor as they were.
C9_FullAppendLeavesState ==
    [][(IsFull(This) /\ CallAppend) =>
           /\ ~aborted'
           /\ UNCHANGED <<length, items, order, id_to_position, version, cur>>]_vars

\* C10: length never exceeds max_length.
C10_LengthBounded == length <= max_length

\* Append has been called on a full queue
C10_Witness == aborted /\ length = max_length

\* the item sequence its with the block [start, end) removed and inserted
\* again so that it begins at index to of the shortened sequence
C11_RemoveInsert(its, n, start, end, to) ==
    LET len == end - start
        shortened == [i \in 0..(n - len - 1) |->
                         IF i < start THEN its[i] ELSE its[i + len]]
    IN  [p \in 0..(n - 1) |->
            IF p < to THEN shortened[p]
            ELSE IF p < to + len THEN its[start + (p - to)]
            ELSE shortened[p - len]]

\* song, identifier and priority of two items agree
C11_SameItem(a, b) == a.song = b.song /\ a.id = b.id /\ a.priority = b.priority

\* what MoveRange leaves is the block removed and inserted again, and the id
\* table names the new positions
C11_Moved(q, start, end, to) ==
    LET r == MoveRange(q, start, end, to)
        expected == C11_RemoveInsert(q.items, q.length, start, end, to)
    IN  /\ r.length = q.length
        /\ \A p \in 0..(q.length - 1) :
               /\ C11_SameItem(r.items[p], expected[p])
               /\ r.id_to_position[r.items[p].id] = p

\* a queue of five songs A..E (songs 0..4) of capacity 5
C11_FiveSongs ==
    [length |-> 5, version |-> 1,
     items |-> [p \in 0..4 |-> [song |-> p, id |-> p, version |-> 1,
                                priority |-> 0]],
     order |-> [p \in 0..4 |-> p],
     id_to_position |-> [i \in 0..(5 * QUEUE_HASH_MULT - 1) |->
                            IF i < 5 THEN i ELSE -1],
     random |-> FALSE]

\* [A,B,C,D,E], MoveRange(1, 3, 3) gives [A,D,E,B,C]
C11_Example ==
    LET r == MoveRange(C11_FiveSongs, 1, 3, 3)
    IN  /\ [p \in 0..4 |-> r.items[p].song] =
               (0 :> 0 @@ 1 :> 3 @@ 2 :> 4 @@ 3 :> 1 @@ 4 :> 2)
        /\ C11_Moved(C11_FiveSongs, 1, 3, 3)

\* C11 as stated: MoveRange(start, end, to) yields the item sequence with
\* the block removed and inserted again at index to of the shortened
\* sequence, the id table names every item's new position, and the items at
\* positions outside the source range [start, end) and the destination
\* range [to, to + end - start) are the ones that were there.
C11_MoveRangeFrameUnion ==
    \A start \in 0..length :
        \A end \in start..length :
            \A to \in 0..(length - (end - start)) :
                /\ C11_Moved(This, start, end, to)
                /\ \A p \in 0..(length - 1) :
                       (/\ ~(start <= p /\ p < end)
                        /\ ~(to <= p /\ p < to + (end - start)))
                       => MoveRange(This, start, end, to).items[p].id = items[p].id

\* C11 amended: the same, with the items that stay being those at positions
\* below both ranges or above both ranges (the items between the two ranges
\* shift by the block length).
C11_MoveRangeFrameSpan ==
    /\ C11_Example
    /\ \A start \in 0..length :
           \A end \in start..length :
               \A to \in 0..(length - (end - start)) :
                   /\ C11_Moved(This, start, end, to)
                   /\ \A p \in 0..(length - 1) :
                          (\/ p < start /\ p < to
                           \/ p >= end /\ p >= to + (end - start))
                          => MoveRange(This, start, end, to).items[p].id = items[p].id

\* three songs in random mode, where moving the first song behind the other
\* two shifts the song between the two ranges
C11_Witness ==
    /\ length = 3
    /\ random
    /\ MoveRange(This, 0, 1, 2).items[0].id = items[1].id
    /\ MoveRange(This, 0, 1, 2).items[2].id = items[0].id

\* C12: every call leaves each song that stays in the queue with the
\* identifier it had, and the id table maps that identifier to the position
\* that now holds the song; the identifier of a song that the call removes
\* resolves to none (-1); and an identifier that resolved to none resolves
\* to a position again only through the Append that hands it out.
C12_IdStable ==
    [][/\ \A p \in 0..(length - 1) :
              LET s == items[p].song
                  i == items[p].id
                  now == {p2 \in 0..(length' - 1) : items'[p2].song = s}
              IN  IF now = {}
                  THEN id_to_position'[i] = -1
                  ELSE \A p2 \in now :
                           items'[p2].id = i /\ id_to_position'[i] = p2
       /\ \A i \in 0..(IdSlots - 1) :
              (id_to_position[i] = -1 /\ id_to_position'[i] # -1) =>
                  /\ length' = length + 1
                  /\ items'[length].id = i
                  /\ id_to_position'[i] = length]_vars

\* the first song appended still has its identifier after it has been moved
\* to the last position and another song has been deleted and replaced
C12_Witness ==
    /\ length = 3
    /\ songs = MaxSongs
    /\ random
    /\ items[2].song = 0
    /\ items[2].id = 0
    /\ id_to_position[0] = 2

\* C13: the identifier that a call releases is not the identifier that the
\* Append following the call returns.
C13_FreedIdNotNext ==
    [][\A p \in 0..(length - 1) :
           id_to_position'[items[p].id] = -1 =>
               queue_generate_id(This', cur') # items[p].id]_vars

\* the counter is back at 1 and every live item carries the stamp 0
C14_Reset ==
    /\ version = 1
    /\ \A p \in 0..(length - 1) : items[p].version = 0

\* the stamping calls that do not call IncrementVersion
C14_StampOnlyCall ==
    \/ CallSwapPositions
    \/ CallMovePostion
    \/ CallMoveRange
    \/ CallSetPriority

C15_FreeSlotsAreSentinel ==
    /\ \A i \in 0..(IdSlots - 1) :
           id_to_position[i] # -1 =>
               \E p \in 0..(length - 1) : items[p].id = i
    /\ Cardinality({i \in 0..(IdSlots - 1) : id_to_position[i] # -1}) = length

\* the slots of the first two identifiers have been released by a deletion
\* or by Clear, and a later song is in the queue
C15_Witness ==
    /\ songs = MaxSongs
    /\ length = 1
    /\ id_to_position[0] = -1
    /\ id_to_position[1] = -1

\* C16: for every position, every after_order and either random setting,
\* SetPriority with the priority the item already has returns false and
\* leaves the queue (priorities, stamps, order array, version counter) as
\* it is.
C16_SetSamePriority ==
    \A position \in 0..(length - 1) :
        \A after_order \in -1..(length - 1) :
            SetPriority(This, position, items[position].priority, after_order)
                = {[q |-> This, changed |-> FALSE]}

\* a random queue where a stamp or a move of the order entry would show: the
\* item has an older stamp and is not first of its priority in the order
C16_Witness ==
    /\ random
    /\ length = 3
    /\ version = 2
    /\ items[1].version = 1
    /\ items[1].priority = 1
    /\ order[2] = 1
    /\ SetPriority(This, 1, 1, -1) = {[q |-> This, changed |-> FALSE]}

\* C17: Append followed by DeletePosition at the position of the appended
\* item leaves length, items, order array, id table and version counter as
\* they were before the Append, in random and in non-random mode.
C17_AppendThenDelete ==
    ~IsFull(This) =>
        \A priority \in Priorities :
            DeletePosition(Append(This, cur, songs, priority).q, length) = This

\* a random queue with a shuffled order for which the pair restores the
\* queue and moves the allocation cursor
C17_Witness ==
    /\ random
    /\ length = 2
    /\ order[0] = 1
    /\ items[0].priority # items[1].priority
    /\ DeletePosition(Append(This, cur, songs, 1).q, length) = This
    /\ Append(This, cur, songs, 1).cur # cur

\* C18: Clear sets length to 0 and every slot of the id table to -1, and
\* leaves repeat, single, consume, random and the version counter as they
\* are (max_length is a constant of the queue).
C18_ClearFrame ==
    [][CallClear =>
           /\ length' = 0
           /\ \A i \in 0..(IdSlots - 1) : id_to_position'[i] = -1
           /\ UNCHANGED <<repeat, single, consume, random, version>>]_vars

\* an emptied queue that has held songs, with every flag set and the
\* counter incremented
C18_Witness ==
    /\ length = 0
    /\ songs >= 2
    /\ repeat /\ single /\ consume /\ random
    /\ version = MaxVersion
    /\ \A i \in 0..(IdSlots - 1) : id_to_position[i] = -1

\* the identifiers in the sequence in which the queue plays them
PlaySequence(q) == [k \in 0..(q.length - 1) |-> q.items[q.order[k]].id]

\* a sequence without its element at index k
C19_Without(seq, n, k) ==
    [i \in 0..(n - 2) |-> IF i < k THEN seq[i] ELSE seq[i + 1]]

\* C19: in random mode MovePosition and MoveRange leave the sequence of
\* identifiers read along the order array as it was, and DeletePosition
\* leaves it as it was without the deleted item.
C19_PlaySequenceKept ==
    random =>
        /\ \A from, to \in 0..(length - 1) :
               PlaySequence(MovePostion(This, from, to)) = PlaySequence(This)
        /\ \A start \in 0..length :
               \A end \in start..length :
                   \A to \in 0..(length - (end - start)) :
                       PlaySequence(MoveRange(This, start, end, to))
                           = PlaySequence(This)
        /\ \A position \in 0..(length - 1) :
               PlaySequence(DeletePosition(This, position))
                   = C19_Without(PlaySequence(This), length,
                                 PositionToOrder(This, position))

\* a shuffled queue of three songs in which moving the last two songs to
\* the front changes every position and keeps the playing sequence
C19_Witness ==
    /\ random
    /\ length = 3
    /\ order[0] = 1 /\ order[1] = 2 /\ order[2] = 0
    /\ MoveRange(This, 1, 3, 0).order # order
    /\ PlaySequence(MoveRange(This, 1, 3, 0)) = PlaySequence(This)

\* C20 as stated: in random mode SwapPositions and ShuffleRange leave every
\* order index referring to the item (the identifier) it referred to.
C20_SwapKeepsPlaySequence ==
    random =>
        /\ \A position1, position2 \in 0..(length - 1) :
               PlaySequence(SwapPositions(This, position1, position2))
                   = PlaySequence(This)
        /\ \A start \in 0..length :
               \A end \in start..length :
                   \A q \in ShuffleRange(This, start, end) :
                       PlaySequence(q) = PlaySequence(This)

\* C20 amended: SwapPositions and ShuffleRange do not write the order
\* array; in random mode, after SwapPositions(p1, p2) the order index that
\* referred to the item at p1 refers to the item that was at p2 and the
\* other way round, and exchanging these two order entries (SwapOrders)
\* gives back the playing sequence.
C20_SwapLeavesOrder ==
    random =>
        /\ \A position1, position2 \in 0..(length - 1) :
               LET r == SwapPositions(This, position1, position2)
                   order1 == PositionToOrder(This, position1)
                   order2 == PositionToOrder(This, position2)
               IN  /\ r.order = order
                   /\ PlaySequence(r)[order1] = items[position2].id
                   /\ PlaySequence(r)[order2] = items[position1].id
                   /\ \A k \in 0..(length - 1) :
                          (k # order1 /\ k # order2) =>
                              PlaySequence(r)[k] = PlaySequence(This)[k]
                   /\ PlaySequence(SwapOrders(r, order1, order2))
                          = PlaySequence(This)
        /\ \A start \in 0..length :
               \A end \in start..length :
                   \A q \in ShuffleRange(This, start, end) : q.order = order

\* a shuffled queue of three songs in which exchanging the first and the
\* last song changes the playing sequence
C20_Witness ==
    /\ random
    /\ length = 3
    /\ order[0] = 2
    /\ PlaySequence(SwapPositions(This, 0, 2)) # PlaySequence(This)
    /\ SwapPositions(This, 0, 2).order = order

\* the priorities read along the order array of q from order index first on
\* never increase
TailSorted(q, first) ==
    \A k, j \in first..(q.length - 1) :
        k < j => queue_get_order_priority(q, k) >= queue_get_order_priority(q, j)

\* the order index, in q, of the song that the queue of the state has at
\* after_order; -1 for after_order = -1
AfterOrderIn(q, after_order) ==
    IF after_order = -1 THEN -1
    ELSE PositionToOrder(q, id_to_position[items[order[after_order]].id])

\* C21: in random mode, when the priorities of the order entries after
\* after_order are non-increasing, then after SetPriority(position, priority,
\* after_order) the priorities of the order entries after the song that was
\* at after_order are non-increasing, for every partner of the final swap.
C21_TailStaysSorted ==
    random =>
        \A after_order \in -1..(length - 1) :
            TailSorted(This, after_order + 1) =>
                \A position \in 0..(length - 1) :
                    \A priority \in Priorities :
                        \A r \in SetPriority(This, position, priority, after_order) :
                            TailSorted(r.q, AfterOrderIn(r.q, after_order) + 1)

\* three songs of priority 0, the second one playing: raising the song that
\* was played first moves its order entry behind the playing song
C21_Witness ==
    /\ random
    /\ length = 3
    /\ \A p \in 0..2 : items[p].priority = 0
    /\ \E r \in SetPriority(This, order[0], 1, 1) :
           /\ r.q.order # order
           /\ r.q.order[1] = order[0]

\* C22: in random mode, when SetPriority changes the priority of an item
\* whose order index is below after_order, it returns true, and it changes
\* the order array only if the new priority is greater than the priority of
\* the item at after_order and the old priority is not.
C22_PlayedSongEnqueuedOnlyWhenRaised ==
    random =>
        \A after_order \in 0..(length - 1) :
            \A position \in 0..(length - 1) :
                \A priority \in Priorities :
                    (/\ PositionToOrder(This, position) < after_order
                     /\ priority # items[position].priority)
                    => \A r \in SetPriority(This, position, priority, after_order) :
                           /\ r.changed
                           /\ r.q.items[position].priority = priority
                           /\ r.q.order # order =>
                                  /\ priority > items[order[after_order]].priority
                                  /\ ~(items[position].priority >
                                           items[order[after_order]].priority)

\* the song played first has priority 1 and the playing song priority 0:
\* lowering the first one leaves the order array as it is
C22_Witness ==
    /\ random
    /\ length = 3
    /\ items[order[0]].priority = 1
    /\ items[order[1]].priority = 0
    /\ \A r \in SetPriority(This, order[0], 0, 1) :
           /\ r.changed
           /\ r.q.order = order
           /\ r.q.items[order[0]].priority = 0

\* in q no song stands before the song that the state has at after_order,
\* or in its slot, that did not stand before it in the state
C23_NothingNewBefore(q, after_order) ==
    \A p \in 0..(length - 1) :
        LET now == PositionToOrder(q, id_to_position[items[p].id])
        IN  now <= AfterOrderIn(q, after_order) =>
                PositionToOrder(This, p) <= after_order

\* C23: in random mode with after_order >= 0, an item whose order entry
\* SetPriority moves ends at an order index greater than that of the song
\* that was at after_order, and no other song gets in front of that song;
\* SetPriorityRange leaves no song of its range, and no other song, newly
\* in front of that song or in its slot.
C23_MovedBehindPlaying ==
    random =>
        \A after_order \in 0..(length - 1) :
            \A priority \in Priorities :
                /\ \A position \in 0..(length - 1) :
                       \A r \in SetPriority(This, position, priority, after_order) :
                           /\ r.q.order # order =>
                                  PositionToOrder(r.q, position)
                                      > AfterOrderIn(r.q, after_order)
                           /\ C23_NothingNewBefore(r.q, after_order)
                /\ \A start_position \in 0..length :
                       \A end_position \in start_position..length :
                           \A r \in SetPriorityRange(This, start_position,
                                                     end_position, priority,
                                                     after_order) :
                               C23_NothingNewBefore(r.q, after_order)

\* three songs of priority 0, the last one in the order playing and handled
\* last: raising all three moves both played songs behind the playing one
C23_Witness ==
    /\ random
    /\ length = 3
    /\ \A p \in 0..2 : items[p].priority = 0
    /\ order[2] = 2
    /\ \E r \in SetPriorityRange(This, 0, 3, 1, 2) :
           /\ r.changed
           /\ PositionToOrder(r.q, 2) = 0

\* C24: in random mode with after_order = -1, a SetPriority that raises an
\* item's priority above the priority of every other item leaves the item at
\* order index 0, the other order entries being the other positions, and
\* the item's stamp is the value the version counter had before the call.
C24_RaisedAboveAllIsFirst ==
    random =>
        \A position \in 0..(length - 1) :
            \A priority \in Priorities :
                (\A p \in 0..(length - 1) : items[p].priority < priority)
                => \A r \in SetPriority(This, position, priority, -1) :
                       /\ r.changed
                       /\ r.q.order[0] = position
                       /\ {r.q.order[k] : k \in 1..(length - 1)}
                              = (0..(length - 1)) \ {position}
                       /\ r.q.items[position].priority = priority
                       /\ r.q.items[position].version = version

\* three songs of priority 0 with stamp 1 at counter 2: raising the song
\* that plays last makes it the first, with stamp 2
C24_Witness ==
    /\ random
    /\ length = 3
    /\ version = 2
    /\ \A p \in 0..2 : items[p].priority = 0 /\ items[p].version = 1
    /\ \A r \in SetPriority(This, order[2], 1, -1) :
           /\ r.q.order[0] = order[2]
           /\ r.q.items[order[2]].version = 2

\* C25: a SetPriority that changes the priority returns true, writes the
\* priority and the stamp, and leaves the order array as it is, whenever
\* random mode is off or the item's order index equals after_order.
C25_OrderUntouched ==
    \A position \in 0..(length - 1) :
        \A priority \in Priorities :
            \A after_order \in -1..(length - 1) :
                (/\ priority # items[position].priority
                 /\ ~random \/ PositionToOrder(This, position) = after_order)
                => \A r \in SetPriority(This, position, priority, after_order) :
                       /\ r.changed
                       /\ r.q.order = order
                       /\ r.q.items[position].priority = priority
                       /\ r.q.items[position].version = version

\* in random mode the playing song, second of three of priority 0 and with
\* an older stamp, is raised and stays where it is
C25_Witness ==
    /\ random
    /\ length = 3
    /\ version = 2
    /\ \A p \in 0..2 : items[p].priority = 0
    /\ items[order[1]].version = 1
    /\ \A r \in SetPriority(This, order[1], 1, 1) :
           /\ r.q.order = order
           /\ r.q.items[order[1]].version = 2

\* C26: in random mode ShuffleOrderRangeWithPriority(s, e), and ShuffleOrder
\* as the range [0, length), leaves the order slice [s, e) a permutation of
\* what it held with the priorities along it non-increasing, leaves the
\* order entries outside the slice and the items as they are, and the
\* assertion of its loop holds for every outcome of the sort.
C26_SliceSortedAndShuffled ==
    random =>
        /\ \A start \in 0..length :
               \A end \in start..length :
                   /\ \A r \in ShuffleOrderRangeWithPriority(This, start, end) :
                          /\ {r.order[k] : k \in start..(end - 1)}
                                 = {order[k] : k \in start..(end - 1)}
                          /\ \A k, j \in start..(end - 1) :
                                 k < j => queue_get_order_priority(r, k)
                                              >= queue_get_order_priority(r, j)
                          /\ \A k \in 0..(length - 1) :
                                 (k < start \/ k >= end) => r.order[k] = order[k]
                          /\ r.items = items
                          /\ r.length = length
                   /\ ShuffleOrderRangeWithPriority(This, start, end) # {}
                   /\ \A sorted \in queue_sort_order_by_priority(This, start, end) :
                          start < end =>
                              ShuffleGroupsAssertion(sorted, start + 1, end,
                                  queue_get_order_priority(sorted, start))
        /\ ShuffleOrder(This) = ShuffleOrderRangeWithPriority(This, 0, length)

\* an order that plays the one song of priority 1 last: ShuffleOrder puts it
\* first and leaves the two others in either of their two arrangements
C26_Witness ==
    /\ random
    /\ length = 3
    /\ items[order[0]].priority = 0
    /\ items[order[1]].priority = 0
    /\ items[order[2]].priority = 1
    /\ Cardinality(ShuffleOrder(This)) = 2
    /\ \A r \in ShuffleOrder(This) : r.order[0] = order[2]

\* C27: for every sequence of draws, ShuffleRange(start, end) leaves in the
\* positions [start, end) the items that were there, each with its song,
\* priority and identifier and with the stamp of the current counter value,
\* leaves every item outside [start, end) as it is, stamp included, and the
\* id table maps every identifier to its new position.
C27_ShuffleRangeFrame ==
    \A start \in 0..length :
        \A end \in start..length :
            \A r \in ShuffleRange(This, start, end) :
                /\ r.length = length
                /\ r.version = version
                /\ \A p \in start..(end - 1) :
                       /\ r.items[p].version = version
                       /\ \E p0 \in start..(end - 1) :
                              /\ r.items[p].id = items[p0].id
                              /\ r.items[p].song = items[p0].song
                              /\ r.items[p].priority = items[p0].priority
                /\ {r.items[p].id : p \in start..(end - 1)}
                       = {items[p].id : p \in start..(end - 1)}
                /\ \A p \in 0..(length - 1) :
                       /\ (p < start \/ p >= end) => r.items[p] = items[p]
                       /\ r.id_to_position[r.items[p].id] = p

\* three songs with stamp 1 at counter 2: some draws exchange the first two
\* songs and leave the third with its stamp, others leave all where they are
C27_Witness ==
    /\ length = 3
    /\ version = 2
    /\ \A p \in 0..2 : items[p].version = 1
    /\ \E r \in ShuffleRange(This, 0, 2) :
           /\ r.items[0].id = items[1].id
           /\ r.items[0].version = 2
           /\ r.items[2] = items[2]
    /\ \E r \in ShuffleRange(This, 0, 2) : r.items[0].id = items[0].id

\* the calls that create an item or change positions or priorities
C28_Call ==
    \/ CallAppend
    \/ CallSwapPositions
    \/ CallMovePostion
    \/ CallMoveRange
    \/ CallDeletePosition
    \/ CallShuffleRange
    \/ CallSetPriority

\* C28: after Append, SwapPositions, MovePosition, MoveRange, DeletePosition,
\* ShuffleRange or SetPriority every live item that is new, or whose position
\* or priority is not the one it had, carries the value the version counter
\* had when the call began.
C28_ChangedItemsStamped ==
    [][\/ \A p \in 0..(length' - 1) :
              LET was == id_to_position[items'[p].id]
              IN  \/ items'[p].version = version
                  \/ /\ was = p
                     /\ items[was].priority = items'[p].priority
       \/ ~C28_Call]_vars

\* the first of three songs has been deleted at counter 2: the two songs
\* behind it have moved down and carry the stamp 2
C28_Witness ==
    /\ version = 2
    /\ length = 2
    /\ songs = 3
    /\ id_to_position[0] = -1
    /\ items[0].song = 1 /\ items[0].id = 1 /\ items[0].version = 2
    /\ items[1].song = 2 /\ items[1].id = 2 /\ items[1].version = 2

\* C29: once the client has read the counter value v, every item that a
\* later call has created, moved or written carries a stamp of at least v
\* in every later state, as long as the counter has not wrapped around.
C29_NoChangeMissed ==
    seen # -1 =>
        \A p \in 0..(length - 1) :
            items[p].id \in since => items[p].version >= seen

\* the client has read 2; since then the first item has been stamped and
\* the second, with the older stamp 1, has not been touched
C29_Witness ==
    /\ seen = 2
    /\ length >= 2
    /\ items[0].id \in since
    /\ items[0].version = 2
    /\ items[1].id \notin since
    /\ items[1].version = 1

\* C30: from any state, random or not, MovePostion(from, to) and
\* MoveRange(from, from + 1, to) end in the same state: the same items with
\* the same stamps, the same id table, the same order array and the same
\* version counter.
C30_MovePositionIsMoveRangeOfOne ==
    \A from \in 0..(length - 1) : \A to \in 0..(length - 1) :
        MovePostion(This, from, to) = MoveRange(This, from, from + 1, to)

\* three songs in random mode with a stale stamp, the last position first in
\* the order: moving it to the front rewrites items, id table and order,
\* and both functions give that result
C30_Witness ==
    /\ random
    /\ length = 3
    /\ order[0] = 2
    /\ version = 2
    /\ items[1].version = 1
    /\ LET r == MovePostion(This, 2, 0)
       IN  /\ r = MoveRange(This, 2, 3, 0)
           /\ r.order # order
           /\ r.items # items
           /\ r.id_to_position # id_to_position
           /\ r.items[2].version = 2

\* C31: with two queues that share the allocation cursor, no identifier is
\* live in both queues at the same time, whatever the interleaving of
\* Append and DeletePosition on the two.
C31_GloballyUnique ==
    \A p \in 0..(length - 1) : \A p2 \in 0..(other.length - 1) :
        items[p].id # other.items[p2].id

\* C32: for either queue, whenever length < max_length and whatever the
\* cursor holds on entry (the initial (unsigned)-1 and values beyond the
\* queue's own table, left by the larger queue, included), queue_generate_id
\* ends within max_length * QUEUE_HASH_MULT probes and returns an index of
\* the queue's table whose slot holds -1.
C32_AllocationTerminates ==
    \A q \in {This, other} :
        q.length < q.max_length =>
            \A c \in {cur} \cup (G_MAXUINT..(IdSlots - 1)) :
                /\ queue_generate_id_probes(q, c, 1)
                       <= q.max_length * QUEUE_HASH_MULT
                /\ queue_generate_id(q, c) \in
                       0..(q.max_length * QUEUE_HASH_MULT - 1)
                /\ q.id_to_position[queue_generate_id(q, c)] = -1

\* the cursor stands beyond the table of the smaller queue, which has room
\* and gets slot 0, and the larger queue has room and needs a second probe
C32_Witness ==
    /\ ~aborted
    /\ cur >= other.max_length * QUEUE_HASH_MULT
    /\ other.length < other.max_length
    /\ queue_generate_id(other, cur) = 0
    /\ length < max_length
    /\ queue_generate_id_probes(This, cur, 1) >= 2
    /\ queue_generate_id(This, cur) = cur + 2

\* C33: the version counter is between 1 and 2^31-2 before and after every
\* call; a call that changes it adds one, or takes it from 2^31-2 back to 1,
\* so that neither 0 nor 2^31-1 is ever left in it and it decreases in the
\* reset step only.
C33_VersionInRange ==
    [][/\ version \in 1..(max - 1)
       /\ version' \in 1..(max - 1)
       /\ \/ version' = version
          \/ version < max - 1 /\ version' = version + 1
          \/ version = max - 1 /\ version' = 1]_vars

\* the counter has been reset and incremented again: it holds 2 while the
\* first item still carries the stamp 0 of the reset
C33_Witness ==
    /\ version = 2
    /\ length >= 1
    /\ items[0].version = 0

\* the values SetPriority(position, priority, after_order) computes on the
\* way to its reordering step, and whether the call gets there
C34_Step(position, priority, after_order) ==
    LET q == This
        old_priority == q.items[position].priority
        q1 == [q EXCEPT !.items[position].version = q.version,
                        !.items[position].priority = priority]
        _order == PositionToOrder(q1, position)
        after_item == q1.items[OrderToPosition(q1, after_order)]
        before_order ==
            queue_find_priority_order(q1, after_order + 1, priority, _order)
        new_order ==
            IF before_order > _order THEN before_order - 1 ELSE before_order
        q2 == queue_move_order(q1, _order, new_order)
    IN  [reordering |->
             /\ old_priority # priority
             /\ q.random
             /\ ~(after_order >= 0 /\ _order = after_order)
             /\ ~(/\ after_order >= 0
                  /\ _order < after_order
                  /\ \/ old_priority > after_item.priority
                     \/ priority <= after_item.priority),
         _order |-> _order,
         before_order |-> before_order,
         new_order |-> new_order,
         q2 |-> q2,
         priority_count |-> queue_count_same_priority(q2, new_order, priority)]

\* C34: in every random-mode call of SetPriority that reaches the
\* reordering step, the start of the search is at most length, the order
\* moved and its destination new_order are order indices below length, the
\* entry at new_order and the priority_count >= 1 entries counted from it all
\* have the new priority and end at or before length, and ShuffleOrderFirst
\* draws from a non-empty window inside [0, length): none of the assertions
\* of queue_find_priority_order, queue_move_order, queue_count_same_priority
\* and SetPriority fails.
C34_ReorderingInBounds ==
    \A position \in 0..(length - 1) : \A priority \in Priorities :
        \A after_order \in -1..(length - 1) :
            LET s == C34_Step(position, priority, after_order)
            IN  s.reordering =>
                    /\ random
                    /\ after_order + 1 <= length
                    /\ s._order \in 0..(length - 1)
                    /\ s.before_order \in (after_order + 1)..length
                    /\ s.before_order # s._order
                    /\ s.new_order \in 0..(length - 1)
                    /\ s.q2.order[s.new_order] = position
                    /\ s.priority_count >= 1
                    /\ s.new_order + s.priority_count <= length
                    /\ ShuffleOrderFirst(s.q2, s.new_order,
                                         s.new_order + s.priority_count) # {}
                    /\ \A r \in SetPriority(This, position, priority,
                                            after_order) :
                           \E k \in s.new_order..
                                    (s.new_order + s.priority_count - 1) :
                               r.q = SwapOrders(s.q2, s.new_order, k)

\* a full queue in random mode where a song that has been played is raised
\* above the playing song and nothing behind it has so low a priority: the
\* search returns length, the song goes to the last order, and another call
\* finds a group of two to shuffle in
C34_Witness ==
    /\ random
    /\ length = max_length
    /\ \E position \in 0..(length - 1) : \E after_order \in 0..(length - 1) :
           LET s == C34_Step(position, 1, after_order)
           IN  /\ s.reordering
               /\ s._order < after_order
               /\ s.before_order = length
               /\ s.new_order = length - 1
    /\ \E position \in 0..(length - 1) :
           LET s == C34_Step(position, 1, -1)
           IN  /\ s.reordering
               /\ s.before_order < s._order
               /\ s.priority_count >= 2

====
